---- MODULE Spec2Model ----
(***************************************************************************)
(* Meal tracker (src/meal.py): a command-line tool that keeps a ledger of  *)
(* eaten meals and a list of suggestions as JSON files, with a backup copy *)
(* taken before every overwrite and a restore command.                     *)
(*                                                                         *)
(* The state is the file system (the two data files and their backups,     *)
(* under the live and the test root), the clock, and what the last command *)
(* printed.  One action per command line of main() in Spec; in RaceSpec,   *)
(* two add commands run at once, one action per file system call.          *)
(***************************************************************************)
EXTENDS Integers, Sequences, FiniteSets, TLC

VARIABLES
    fs,      \* path -> file content
    now,     \* the clock read by datetime.now(): [day, tod]
    last,    \* the last command: its arguments, its printed lines, its exception
    scope,   \* the name of the session (which inputs the user types); never changes
    procs    \* two concurrent add processes: where each is in add_meal, and its
             \* in-memory list (used by the specification of concurrent adds only)

vars == <<fs, now, last, scope, procs>>

----------------------------------------------------------------------------
(* Bounds *)

\* add is not issued on a ledger that already holds MaxLen records
MaxLen == 3

----------------------------------------------------------------------------
(* Strings *)

BACKUP_SUFFIX == "backup_"
SUGGESTION_SUFFIX == "suggestion_"

\* Python's None where a string is expected
None == "<None>"

\* str.lower() on the strings of the model
Lower(s) ==
    CASE s = "Eggs"  -> "eggs"
      [] s = "PASTA" -> "pasta"
      [] OTHER       -> s

\* str.strip() on the piped texts of the model
Strip(s) ==
    CASE s = "eggs\n"  -> "eggs"
      [] s = " \n"     -> ""
      [] OTHER         -> s

\* the mutant of Truthy: every value passes `if meal:`
Truthy_Always(s) == TRUE

\* a Python value used as a condition: None and "" are false
Truthy(s) == s # None /\ s # ""

----------------------------------------------------------------------------
(* Dates.  A date is its day number within 2026; a datetime is            *)
(* [day, tod], tod = 0 for 00:00:00.000000 and 1 for any later time of    *)
(* that day.                                                              *)

\* the dates the model can name: ISO text (the --date argument), stamp
\* (the "[%Y-%m-%d]" text kept in the ledger), day number
Calendar ==
    { [iso |-> "2026-10-03", stamp |-> "[2026-10-03]", day |-> 276],
      [iso |-> "2026-10-04", stamp |-> "[2026-10-04]", day |-> 277],
      [iso |-> "2026-10-20", stamp |-> "[2026-10-20]", day |-> 293],
      [iso |-> "2026-11-03", stamp |-> "[2026-11-03]", day |-> 307] }

\* datetime.strptime(s, "[%Y-%m-%d]"): ok = FALSE stands for ValueError
strptime_stamp(s) ==
    IF \E c \in Calendar : c.stamp = s
    THEN [ok |-> TRUE, dt |-> [day |-> (CHOOSE c \in Calendar : c.stamp = s).day, tod |-> 0]]
    ELSE [ok |-> FALSE, dt |-> [day |-> 0, tod |-> 0]]

\* datetime.strptime(s, "%Y-%m-%d")
strptime_iso(s) ==
    IF \E c \in Calendar : c.iso = s
    THEN [ok |-> TRUE, dt |-> [day |-> (CHOOSE c \in Calendar : c.iso = s).day, tod |-> 0]]
    ELSE [ok |-> FALSE, dt |-> [day |-> 0, tod |-> 0]]

\* dt.strftime("[%Y-%m-%d]")
strftime_stamp(dt) == (CHOOSE c \in Calendar : c.day = dt.day).stamp

\* dt - timedelta(days=n)
MinusDays(dt, n) == [day |-> dt.day - n, tod |-> dt.tod]

\* a >= b on datetimes
DtGE(a, b) == a.day > b.day \/ (a.day = b.day /\ a.tod >= b.tod)

current_timestamp(clock) == strftime_stamp(clock)

\* valid_date: None stays None, a valid date is re-rendered with brackets,
\* anything else ends the process with status 1 (exit = TRUE)
valid_date(date) ==
    IF date = None THEN [exit |-> FALSE, date |-> None]
    ELSE IF strptime_iso(date).ok
         THEN [exit |-> FALSE, date |-> strftime_stamp(strptime_iso(date).dt)]
         ELSE [exit |-> TRUE, date |-> None]

----------------------------------------------------------------------------
(* Paths.  A path is [dir, name]: the directory as a sequence of          *)
(* components and the file name as the sequence of the parts that are     *)
(* concatenated to make it.                                               *)

\* the --file argument as [dir, base] (its dirname and basename); the
\* sessions of the model do not give it
NoCliPath == [dir |-> <<>>, base |-> None]

get_data_file(live, cli_path) ==
    IF live
    THEN IF cli_path = NoCliPath
         THEN [dir |-> <<".", "live">>, name |-> <<"meals.json">>]
         ELSE [dir |-> Append(cli_path.dir, "live"), name |-> <<cli_path.base, ".json">>]
    ELSE IF cli_path = NoCliPath
         THEN [dir |-> <<".", "test">>, name |-> <<"meals.json">>]
         ELSE [dir |-> Append(cli_path.dir, "test"), name |-> <<cli_path.base, ".json">>]

get_suggestion_file(live, cli_path) ==
    IF live
    THEN IF cli_path = NoCliPath
         THEN [dir |-> <<".", "live">>, name |-> <<"suggestion.json">>]
         ELSE [dir |-> Append(cli_path.dir, "live"),
               name |-> <<SUGGESTION_SUFFIX, cli_path.base, ".json">>]
    ELSE IF cli_path = NoCliPath
         THEN [dir |-> <<".", "test">>, name |-> <<"suggestion.json">>]
         ELSE [dir |-> Append(cli_path.dir, "test"),
               name |-> <<SUGGESTION_SUFFIX, cli_path.base, ".json">>]

\* os.path.join(dirname(p), "backup", BACKUP_SUFFIX + basename(p))
BackupPath(p) == [dir |-> Append(p.dir, "backup"), name |-> <<BACKUP_SUFFIX>> \o p.name]

DataPaths == { get_data_file(l, NoCliPath) : l \in BOOLEAN }
SuggestionPaths == { get_suggestion_file(l, NoCliPath) : l \in BOOLEAN }
Paths == LET live == DataPaths \cup SuggestionPaths
         IN  live \cup { BackupPath(p) : p \in live }

----------------------------------------------------------------------------
(* Files.  A file is absent, or holds text that is not JSON, or holds a   *)
(* JSON list; canon tells whether the text is what json.dump(indent=2)    *)
(* writes for that list (a file written by another tool need not be).     *)

Absent == [kind |-> "absent", canon |-> FALSE, data |-> <<>>]
Corrupt == [kind |-> "corrupt", canon |-> FALSE, data |-> <<>>]
\* json.dump(data, file, indent=2) on a freshly truncated file
Dump(data) == [kind |-> "json", canon |-> TRUE, data |-> data]
\* the same list as another tool formats it
Foreign(data) == [kind |-> "json", canon |-> FALSE, data |-> data]

Exists(f) == f.kind # "absent"

\* load_file: the list, [] for a missing file, None (none = TRUE) and a
\* printed line for text that is not JSON
load_file(f) ==
    CASE f.kind = "absent"  -> [none |-> FALSE, data |-> <<>>]
      [] f.kind = "corrupt" -> [none |-> TRUE,  data |-> <<>>]
      [] OTHER              -> [none |-> FALSE, data |-> f.data]

\* the mutant of save_file: the file is overwritten without a backup copy
save_file_NoBackup(files, data, data_file) ==
    [files EXCEPT ![data_file] = [kind |-> "json", canon |-> TRUE, data |-> data]]

\* save_file: the existing file is copied to its backup, then overwritten
save_file(files, data, data_file) ==
    LET backup_file == BackupPath(data_file)
        copied == IF Exists(files[data_file])
                  THEN [files EXCEPT ![backup_file] = files[data_file]]
                  ELSE files
    IN  [copied EXCEPT ![data_file] = Dump(data)]

----------------------------------------------------------------------------
(* Printed lines and results.  An operation yields [files, out, exc]: the *)
(* file system it leaves, the lines it printed, and the exception that    *)
(* ended it ("none" when it returned).                                    *)

Line(text, i, a, b) == [text |-> text, i |-> i, a |-> a, b |-> b]
Msg(text) == Line(text, 0, "", "")
Msg1(text, a) == Line(text, 0, a, "")

CorruptedLoad == Msg("Corrupted file. Abort loading")
\* what load_file prints
LoadOut(f) == IF load_file(f).none THEN <<CorruptedLoad>> ELSE <<>>

Result(files, out, exc) == [files |-> files, out |-> out, exc |-> exc]

\* dict.get(key) with None for a missing key
Get(item, key) == IF key \in DOMAIN item THEN item[key] ELSE None
\* item.get(k1) or item.get(k2) or default
GetOr(item, k1, k2, default) ==
    IF Truthy(Get(item, k1)) THEN Get(item, k1)
    ELSE IF Truthy(Get(item, k2)) THEN Get(item, k2)
    ELSE default

\* the least index at which a sequence of truth values holds TRUE, 0 when
\* there is none: where an iteration over a list stops
FirstTrue(flags) ==
    IF \E i \in 1..Len(flags) : flags[i]
    THEN CHOOSE i \in 1..Len(flags) : flags[i] /\ \A j \in 1..(i - 1) : ~flags[j]
    ELSE 0

----------------------------------------------------------------------------
(* RecordCleaner *)

RetentionDays == 30
RecentDays == 14

\* what datetime.strptime(meal["timestamp"], "[%Y-%m-%d]") raises
StampError(meal) ==
    IF "timestamp" \notin DOMAIN meal THEN "KeyError"
    ELSE IF ~strptime_stamp(meal["timestamp"]).ok THEN "ValueError"
    ELSE "none"

\* the comparison of clean_old_meals and of suggest_meal
NotOlderThan(meal, clock, days) ==
    DtGE(strptime_stamp(meal["timestamp"]).dt, MinusDays(clock, days))

\* the mutant of clean_old_meals: nothing is dropped
clean_old_meals_KeepAll(meals, clock) ==
    LET Bad(m) == StampError(m) # "none"
        bad == FirstTrue([k \in 1..Len(meals) |-> Bad(meals[k])])
    IN  IF bad # 0
        THEN [exc |-> StampError(meals[bad]), meals |-> <<>>]
        ELSE [exc |-> "none", meals |-> meals]

\* clean_old_meals: the records whose date is not before the cutoff; the
\* first record without a parsable timestamp raises
clean_old_meals(meals, clock) ==
    LET Bad(m) == StampError(m) # "none"
        Keep(m) == NotOlderThan(m, clock, RetentionDays)
        bad == FirstTrue([k \in 1..Len(meals) |-> Bad(meals[k])])
    IN  IF bad # 0
        THEN [exc |-> StampError(meals[bad]), meals |-> <<>>]
        ELSE [exc |-> "none", meals |-> SelectSeq(meals, Keep)]

----------------------------------------------------------------------------
(* MealLedger *)

\* the mutant of AnyContentMatch: the comparison without .lower()
AnyContentMatch_CaseSensitive(suggestions, meal) ==
    IF \E i \in 1..Len(suggestions) : suggestions[i]["content"] = meal
    THEN "True" ELSE "False"

\* any(s["content"].lower() == meal.lower() for s in suggestions): the
\* records are read in order up to the first match; one without "content"
\* met before a match raises KeyError
AnyContentMatch(suggestions, meal) ==
    LET Stop(s) == "content" \notin DOMAIN s \/ Lower(s["content"]) = Lower(meal)
        i == FirstTrue([k \in 1..Len(suggestions) |-> Stop(suggestions[k])])
    IN  IF i = 0 THEN "False"
        ELSE IF "content" \notin DOMAIN suggestions[i] THEN "KeyError"
        ELSE "True"

\* the second half of add_meal: mirror the meal into the suggestions
\* the mutant of add_meal_mirror: the meal is not mirrored
add_meal_mirror_Skip(files, out, meal, suggestion_file) == Result(files, out, "none")

add_meal_mirror(files, out, meal, suggestion_file) ==
    LET loaded == load_file(files[suggestion_file])
        suggestions == IF loaded.none THEN <<>> ELSE loaded.data
        out2 == out \o LoadOut(files[suggestion_file])
        found == AnyContentMatch(suggestions, meal)
    IN  CASE found = "KeyError" -> Result(files, out2, "KeyError")
          [] found = "True"     -> Result(files, out2, "none")
          [] OTHER ->
               Result(save_file(files, Append(suggestions, [content |-> meal]), suggestion_file),
                      out2, "none")

\* the mutant of add_meal: meals.insert(0, entry) puts the new record first
add_meal_Prepend(files, clock, meal, meal_file, suggestion_file, date) ==
    LET loaded  == load_file(files[meal_file])
        meals   == IF loaded.none THEN <<>> ELSE loaded.data
        out1    == LoadOut(files[meal_file])
        cleaned == clean_old_meals(meals, clock)
        entry   == [timestamp |-> IF date = None THEN current_timestamp(clock) ELSE date,
                    content   |-> meal]
        saved   == save_file(files, <<entry>> \o cleaned.meals, meal_file)
    IN  IF cleaned.exc # "none"
        THEN Result(files, out1, cleaned.exc)
        ELSE add_meal_mirror(saved, Append(out1, Msg1("Meal added", meal)), meal, suggestion_file)

add_meal(files, clock, meal, meal_file, suggestion_file, date) ==
    LET loaded  == load_file(files[meal_file])
        meals   == IF loaded.none THEN <<>> ELSE loaded.data
        out1    == LoadOut(files[meal_file])
        cleaned == clean_old_meals(meals, clock)
        entry   == [timestamp |-> IF date = None THEN current_timestamp(clock) ELSE date,
                    content   |-> meal]
        saved   == save_file(files, Append(cleaned.meals, entry), meal_file)
    IN  IF cleaned.exc # "none"
        THEN Result(files, out1, cleaned.exc)
        ELSE add_meal_mirror(saved, Append(out1, Msg1("Meal added", meal)), meal, suggestion_file)

\* the row list_meals prints for the i-th record
MealRow(i, item) ==
    Line("row", i, GetOr(item, "timestamp", "date", "unknown date"),
                   GetOr(item, "content", "meal", "unknown meal"))

\* the mutant of list_meals: the list read is saved again
list_meals_Resave(files, data_file) ==
    LET loaded == load_file(files[data_file])
        data == loaded.data
    IN  IF loaded.none \/ data = <<>>
        THEN Result(files, Append(LoadOut(files[data_file]), Msg("No meals found")), "none")
        ELSE Result(save_file(files, data, data_file),
                    [i \in 1..Len(data) |-> MealRow(i, data[i])], "none")

list_meals(files, data_file) ==
    LET loaded == load_file(files[data_file])
        data == loaded.data
    IN  IF loaded.none \/ data = <<>>
        THEN Result(files, Append(LoadOut(files[data_file]), Msg("No meals found")), "none")
        ELSE Result(files, [i \in 1..Len(data) |-> MealRow(i, data[i])], "none")

\* the mutant of Pop: data.pop() drops the last record whatever the index
Pop_Last(data, index) == SubSeq(data, 1, Len(data) - 1)

\* data.pop(index - 1)
Pop(data, index) == [i \in 1..(Len(data) - 1) |-> IF i < index THEN data[i] ELSE data[i + 1]]

\* the mutant of delete_meal: the test index <= len(data) without 0 < index,
\* so that data.pop(index - 1) counts a non-positive index from the end
delete_meal_NoLowerBound(files, index, data_file) ==
    LET data == load_file(files[data_file]).data
        at == IF index > 0 THEN index ELSE Len(data) + index
    IN  IF index <= Len(data) /\ at \in 1..Len(data)
        THEN Result(save_file(files, Pop(data, at), data_file),
                    <<Line("Deleted meal", index,
                           GetOr(data[at], "content", "meal", "unknown meal"), "")>>, "none")
        ELSE Result(files, <<Msg("Invalid meal number")>>, "none")

\* delete_meal: 0 < index <= len(data) is evaluated left to right, and
\* len(None) raises TypeError
delete_meal(files, index, data_file) ==
    LET loaded == load_file(files[data_file])
        data == loaded.data
        out1 == LoadOut(files[data_file])
    IN  IF ~(0 < index) THEN Result(files, Append(out1, Msg("Invalid meal number")), "none")
        ELSE IF loaded.none THEN Result(files, out1, "TypeError")
        ELSE IF index <= Len(data)
             THEN Result(save_file(files, Pop(data, index), data_file),
                         Append(out1, Line("Deleted meal", index,
                                           GetOr(data[index], "content", "meal", "unknown meal"), "")),
                         "none")
             ELSE Result(files, Append(out1, Msg("Invalid meal number")), "none")

delete_all(files, data_file) ==
    Result(save_file(files, <<>>, data_file), <<Msg("Deleted all meals")>>, "none")

----------------------------------------------------------------------------
(* RestoreService *)

\* the mutant of restore: the live files are written with save_file, which
\* first copies them over their backups
restore_ViaSave(files, data_file, suggestion_file) ==
    LET data_backup == files[BackupPath(data_file)]
        suggestion_backup == files[BackupPath(suggestion_file)]
        missing == <<Msg("No file to restore from")>>
        corrupted == <<Msg("Corrupted file. Abort restoring")>>
        files1 == save_file(files, data_backup.data, data_file)
        files2 == save_file(files1, suggestion_backup.data, suggestion_file)
    IN  CASE data_backup.kind = "absent"        -> Result(files, missing, "none")
          [] data_backup.kind = "corrupt"       -> Result(files, corrupted, "none")
          [] suggestion_backup.kind = "absent"  -> Result(files1, missing, "none")
          [] suggestion_backup.kind = "corrupt" -> Result(files1, corrupted, "none")
          [] OTHER -> Result(files2, <<Msg("Successfully restored.")>>, "none")

\* restore: the four opens in order; the first missing or corrupted backup
\* ends it with what was written so far left in place
restore(files, data_file, suggestion_file) ==
    LET data_backup == files[BackupPath(data_file)]
        suggestion_backup == files[BackupPath(suggestion_file)]
        missing == <<Msg("No file to restore from")>>
        corrupted == <<Msg("Corrupted file. Abort restoring")>>
        files1 == [files EXCEPT ![data_file] = Dump(data_backup.data)]
        files2 == [files1 EXCEPT ![suggestion_file] = Dump(suggestion_backup.data)]
    IN  CASE data_backup.kind = "absent"        -> Result(files, missing, "none")
          [] data_backup.kind = "corrupt"       -> Result(files, corrupted, "none")
          [] suggestion_backup.kind = "absent"  -> Result(files1, missing, "none")
          [] suggestion_backup.kind = "corrupt" -> Result(files1, corrupted, "none")
          [] OTHER -> Result(files2, <<Msg("Successfully restored.")>>, "none")

----------------------------------------------------------------------------
(* SuggestionBook *)

\* the loop of suggest_meal over the ledger: what it raises, and the set of
\* lowercased contents of the records dated within the last 14 days
recent_names(recent_meals, clock) ==
    LET Bad(m) == \/ StampError(m) # "none"
                  \/ (NotOlderThan(m, clock, RecentDays) /\ "content" \notin DOMAIN m)
        bad == FirstTrue([k \in 1..Len(recent_meals) |-> Bad(recent_meals[k])])
    IN  IF bad # 0
        THEN [exc |-> IF StampError(recent_meals[bad]) # "none"
                      THEN StampError(recent_meals[bad]) ELSE "KeyError",
              names |-> {}]
        ELSE [exc |-> "none",
              names |-> { Lower(recent_meals[i]["content"]) :
                            i \in { j \in 1..Len(recent_meals) :
                                      NotOlderThan(recent_meals[j], clock, RecentDays) } }]

\* the list random.choice draws from
eligible(suggestions, names) ==
    LET Free(m) == Lower(m["content"]) \notin names
    IN  [i \in 1..Len(SelectSeq(suggestions, Free)) |-> SelectSeq(suggestions, Free)[i]["content"]]

\* what suggest_meal has before it draws: the exception raised so far and
\* the list random.choice draws from
suggest_eligible(files, clock, meal_file, suggestion_file) ==
    LET recent_meals == load_file(files[meal_file])
        suggestions == load_file(files[suggestion_file])
        recent == IF recent_meals.none \/ recent_meals.data = <<>>
                  THEN [exc |-> "none", names |-> {}]
                  ELSE recent_names(recent_meals.data, clock)
        NoContent(m) == "content" \notin DOMAIN m
    IN  IF suggestions.none \/ suggestions.data = <<>>
        THEN [exc |-> "none", empty |-> TRUE, names |-> <<>>]
        ELSE IF recent.exc # "none"
        THEN [exc |-> recent.exc, empty |-> FALSE, names |-> <<>>]
        ELSE IF FirstTrue([k \in 1..Len(suggestions.data) |-> NoContent(suggestions.data[k])]) # 0
        THEN [exc |-> "KeyError", empty |-> FALSE, names |-> <<>>]
        ELSE [exc |-> "none", empty |-> FALSE, names |-> eligible(suggestions.data, recent.names)]

\* suggest_meal; pick is the position random.choice draws
suggest_meal(files, clock, meal_file, suggestion_file, pick) ==
    LET out1 == LoadOut(files[meal_file]) \o LoadOut(files[suggestion_file])
        e == suggest_eligible(files, clock, meal_file, suggestion_file)
    IN  IF e.empty THEN Result(files, Append(out1, Msg("No suggestions available.")), "none")
        ELSE IF e.exc # "none" THEN Result(files, out1, e.exc)
        ELSE IF e.names # <<>>
             THEN Result(files, Append(out1, Msg1("Suggested meal:", e.names[pick])), "none")
             ELSE Result(files,
                         Append(out1, Msg("No meal found that hasn't been eaten in the last 2 weeks.")),
                         "none")

\* the positions random.choice can draw (one when it is not called)
Picks(files, clock, meal_file, suggestion_file) ==
    LET n == Len(suggest_eligible(files, clock, meal_file, suggestion_file).names)
    IN  IF n = 0 THEN 1..1 ELSE 1..n

\* the mutant of add_suggestion: the suggestion is appended without the
\* duplicate check
add_suggestion_NoCheck(files, meal, suggestion_file) ==
    LET loaded == load_file(files[suggestion_file])
        suggestions == IF loaded.none THEN <<>> ELSE loaded.data
    IN  Result(save_file(files, Append(suggestions, [content |-> meal]), suggestion_file),
               Append(LoadOut(files[suggestion_file]), Msg1("Added suggestion", meal)), "none")

add_suggestion(files, meal, suggestion_file) ==
    LET loaded == load_file(files[suggestion_file])
        suggestions == IF loaded.none THEN <<>> ELSE loaded.data
        out1 == LoadOut(files[suggestion_file])
        found == AnyContentMatch(suggestions, meal)
    IN  CASE found = "KeyError" -> Result(files, out1, "KeyError")
          [] found = "True" -> Result(files, Append(out1, Msg1("Suggestion already exists", meal)), "none")
          [] OTHER ->
               Result(save_file(files, Append(suggestions, [content |-> meal]), suggestion_file),
                      Append(out1, Msg1("Added suggestion", meal)), "none")

list_suggestions(files, suggestion_file) ==
    LET loaded == load_file(files[suggestion_file])
        suggestions == loaded.data
    IN  IF loaded.none \/ suggestions = <<>>
        THEN Result(files, Append(LoadOut(files[suggestion_file]), Msg("No suggestions found.")), "none")
        ELSE Result(files,
                    [i \in 1..Len(suggestions) |->
                       Line("row", i, IF "content" \in DOMAIN suggestions[i]
                                      THEN suggestions[i]["content"] ELSE "unknown", "")],
                    "none")

----------------------------------------------------------------------------
(* The command line *)

\* " ".join(args_meal) on the word lists of the model
Join(words) ==
    CASE words = <<"fried", "eggs">> -> "fried eggs"
      [] OTHER -> words[1]

\* how the meal text reaches the process: piped standard input or words
Typed(word) == [piped |-> FALSE, stdin |-> "", words |-> <<word>>]
Piped(text) == [piped |-> TRUE, stdin |-> text, words |-> <<"x">>]

get_meal_input(input) ==
    IF input.piped THEN Strip(input.stdin)
    ELSE IF input.words # <<>> THEN Join(input.words)
    ELSE None

----------------------------------------------------------------------------
(* Sessions.  A session fixes the words the user types, the dates given   *)
(* with --date, whether --test is given, the time it starts at and the    *)
(* files it finds.                                                        *)

Today == [day |-> 307, tod |-> 1]
Midnight == [day |-> 307, tod |-> 0]

\* a file system with the given live-root files and nothing else
Disk(meals, meals_backup, suggestions, suggestions_backup) ==
    [p \in Paths |->
        CASE p = get_data_file(TRUE, NoCliPath) -> meals
          [] p = BackupPath(get_data_file(TRUE, NoCliPath)) -> meals_backup
          [] p = get_suggestion_file(TRUE, NoCliPath) -> suggestions
          [] p = BackupPath(get_suggestion_file(TRUE, NoCliPath)) -> suggestions_backup
          [] OTHER -> Absent]

EmptyDisk == Disk(Absent, Absent, Absent, Absent)

Session(inputs, dates, tests, clocks, disks) ==
    [inputs |-> inputs, dates |-> dates, tests |-> tests, clocks |-> clocks, disks |-> disks]

\* a ledger written by the old version of the tool, kept by hand since
LegacyLedger ==
    Foreign(<< [timestamp |-> "[2026-10-03]", content |-> "eggs"],
               [date |-> "[2026-11-03]", meal |-> "pasta"] >>)

\* a ledger the current version has added to since
MixedLedger ==
    Foreign(<< [date |-> "[2026-11-03]", meal |-> "pasta"],
               [timestamp |-> "[2026-11-03]", content |-> "eggs"] >>)

SessionNames == {"casing", "retention", "recency", "damaged", "legacy", "piped"}

SessionOf(name) ==
    CASE name = "casing" ->
           \* two meals, one of them in two casings
           Session({Typed("eggs"), Typed("Eggs"), Typed("pasta")}, {None}, {FALSE}, {Today},
                   {EmptyDisk})
      [] name = "retention" ->
           \* a meal dated 30 days back: inside the retention window at midnight only
           Session({Typed("eggs")}, {None, "2026-10-04"}, {FALSE}, {Midnight}, {EmptyDisk})
      [] name = "recency" ->
           \* a meal dated 14 days back: recent at midnight only
           Session({Typed("Eggs")}, {None, "2026-10-20"}, {FALSE}, {Midnight},
                   { Disk(Absent, Absent,
                          Dump(<<[content |-> "eggs"], [content |-> "pasta"]>>), Absent) })
      [] name = "damaged" ->
           \* files that do not hold JSON
           Session({Typed("eggs")}, {None}, {FALSE}, {Today},
                   { Disk(Corrupt, Absent, Absent, Absent),
                     Disk(Absent, Absent, Corrupt, Absent),
                     Disk(Dump(<<>>), Corrupt, Dump(<<>>), Absent),
                     Disk(Dump(<<>>), Dump(<<>>), Dump(<<>>), Corrupt) })
      [] name = "legacy" ->
           \* a ledger with a record of the old shape
           Session({Typed("eggs")}, {None}, {FALSE}, {Today},
                   { Disk(LegacyLedger, Absent, Dump(<<[content |-> "eggs"]>>), Absent),
                     Disk(MixedLedger, Absent, Dump(<<[content |-> "eggs"]>>), Absent) })
      [] OTHER ->
           \* "piped": with and without --test, piped input, an empty word, a
           \* date that does not parse
           Session({Piped("eggs\n"), Piped(" \n"), Typed("")}, {None, "03/11/2026"},
                   {TRUE, FALSE}, {Today}, {EmptyDisk})

----------------------------------------------------------------------------
(* main *)

\* the record of a command: what was asked, what was printed, what ended it
Done(cmd, test, meal, date, index, out, exc, status) ==
    [cmd |-> cmd, test |-> test, meal |-> meal, date |-> date, index |-> index,
     out |-> out, exc |-> exc, status |-> status]

\* a command that ran the operation with result r
Ran(cmd, test, meal, date, index, r) ==
    /\ fs' = r.files
    /\ last' = Done(cmd, test, meal, date, index, r.out, r.exc, IF r.exc = "none" THEN 0 ELSE 1)
    /\ UNCHANGED <<now, scope, procs>>

\* the mutant of DataFile: args.test read as "--test was given"
DataFile_FlagAsLive(test) == get_data_file(test, NoCliPath)

\* args.test is False when --test is given (action="store_false"), and it
\* is passed as the `live` parameter
DataFile(test) == get_data_file(~test, NoCliPath)
SuggestionFile(test) == get_suggestion_file(~test, NoCliPath)

\* the delete indices tried
Indices == -1..(MaxLen + 1)

Add ==
    \E test \in SessionOf(scope).tests, input \in SessionOf(scope).inputs, date \in SessionOf(scope).dates :
        LET meal == get_meal_input(input)
            checked == valid_date(date)
        IN  /\ Len(fs[DataFile(test)].data) < MaxLen
            /\ IF checked.exit
               THEN Ran("add", test, meal, date, 0,
                        [files |-> fs, out |-> <<Msg1("Not a valid date", date)>>, exc |-> "SystemExit"])
               ELSE IF Truthy(meal)
               THEN Ran("add", test, meal, date, 0,
                        add_meal(fs, now, meal, DataFile(test), SuggestionFile(test), checked.date))
               ELSE Ran("add", test, meal, date, 0,
                        Result(fs, <<Msg("No meal content provided.")>>, "none"))

AddSuggest ==
    \E test \in SessionOf(scope).tests, input \in SessionOf(scope).inputs :
        LET meal == get_meal_input(input)
        IN  IF Truthy(meal)
            THEN Ran("addsuggest", test, meal, None, 0, add_suggestion(fs, meal, SuggestionFile(test)))
            ELSE Ran("addsuggest", test, meal, None, 0,
                     Result(fs, <<Msg("No meal content provided.")>>, "none"))

List ==
    \E test \in SessionOf(scope).tests :
        Ran("list", test, None, None, 0, list_meals(fs, DataFile(test)))

Delete ==
    \E test \in SessionOf(scope).tests, index \in Indices :
        Ran("delete", test, None, None, index, delete_meal(fs, index, DataFile(test)))

DeleteAll ==
    \E test \in SessionOf(scope).tests :
        Ran("deleteall", test, None, None, 0, delete_all(fs, DataFile(test)))

Restore ==
    \E test \in SessionOf(scope).tests :
        Ran("restore", test, None, None, 0, restore(fs, DataFile(test), SuggestionFile(test)))

Suggest ==
    \E test \in SessionOf(scope).tests :
        \E pick \in Picks(fs, now, DataFile(test), SuggestionFile(test)) :
            Ran("suggest", test, None, None, pick,
                suggest_meal(fs, now, DataFile(test), SuggestionFile(test), pick))

ListSuggest ==
    \E test \in SessionOf(scope).tests :
        Ran("listsuggest", test, None, None, 0, list_suggestions(fs, SuggestionFile(test)))

\* time passes between two commands: midnight sharp is over
Tick ==
    /\ now.tod = 0
    /\ now' = [now EXCEPT !.tod = 1]
    /\ last' = Done("tick", FALSE, None, None, 0, <<>>, "none", 0)
    /\ UNCHANGED <<fs, scope, procs>>

\* one command at a time: no process is in the middle of an add
NoProcs ==
    [i \in {1, 2} |->
        [pc |-> "none", target |-> None, meal |-> None, meals |-> <<>>, suggestions |-> <<>>]]

Init ==
    /\ scope \in SessionNames
    /\ fs \in SessionOf(scope).disks
    /\ now \in SessionOf(scope).clocks
    /\ last = Done("none", FALSE, None, None, 0, <<>>, "none", 0)
    /\ procs = NoProcs

Next ==
    \/ Add
    \/ AddSuggest
    \/ List
    \/ Delete
    \/ DeleteAll
    \/ Restore
    \/ Suggest
    \/ ListSuggest
    \/ Tick

Spec == Init /\ [][Next]_vars

----------------------------------------------------------------------------
(* Two add commands at once.  Each process runs add_meal of the source;    *)
(* one action per file system call, the in-memory work in between joined   *)
(* to the call before it.  There is no lock in the source: any             *)
(* interleaving of the calls of the two processes is possible.             *)

RaceMealFile == DataFile(FALSE)
RaceSuggestionFile == SuggestionFile(FALSE)

\* a process at the first line of add_meal
Start(meal) ==
    [pc |-> "load_meals", target |-> None, meal |-> meal, meals |-> <<>>, suggestions |-> <<>>]

\* the meals the two processes add
RaceMeals == { <<"eggs", "Eggs">>, <<"eggs", "pasta">> }

\* the files the two processes find
RaceDisks ==
    { EmptyDisk,
      Disk(Dump(<<[timestamp |-> "[2026-10-20]", content |-> "pasta"]>>), Absent,
           Dump(<<[content |-> "pasta"]>>), Absent) }

\* the mutant of RaceLoadMeals: the entry is not appended to the list
RaceLoadMeals_NoAppend(i) ==
    LET loaded  == load_file(fs[RaceMealFile])
        meals   == IF loaded.none THEN <<>> ELSE loaded.data
        cleaned == clean_old_meals(meals, now)
    IN  /\ procs[i].pc = "load_meals"
        /\ procs' = [procs EXCEPT ![i] =
                        IF cleaned.exc # "none"
                        THEN [@ EXCEPT !.pc = "crashed"]
                        ELSE [@ EXCEPT !.pc = "copy", !.target = RaceMealFile,
                                       !.meals = cleaned.meals]]
        /\ UNCHANGED <<fs, now, last, scope>>

\* add_meal up to the call of save_file: load, prune, append
RaceLoadMeals(i) ==
    LET loaded  == load_file(fs[RaceMealFile])
        meals   == IF loaded.none THEN <<>> ELSE loaded.data
        cleaned == clean_old_meals(meals, now)
        entry   == [timestamp |-> current_timestamp(now), content |-> procs[i].meal]
    IN  /\ procs[i].pc = "load_meals"
        /\ procs' = [procs EXCEPT ![i] =
                        IF cleaned.exc # "none"
                        THEN [@ EXCEPT !.pc = "crashed"]
                        ELSE [@ EXCEPT !.pc = "copy", !.target = RaceMealFile,
                                       !.meals = Append(cleaned.meals, entry)]]
        /\ UNCHANGED <<fs, now, last, scope>>

\* save_file: shutil.copy2 of the file, if it exists, over its backup
RaceCopyBackup(i) ==
    LET data_file == procs[i].target
    IN  /\ procs[i].pc = "copy"
        /\ fs' = IF Exists(fs[data_file])
                 THEN [fs EXCEPT ![BackupPath(data_file)] = fs[data_file]]
                 ELSE fs
        /\ procs' = [procs EXCEPT ![i].pc = "open"]
        /\ UNCHANGED <<now, last, scope>>

\* save_file: open(data_file, "w") leaves the file empty, which is not JSON
RaceOpenForWrite(i) ==
    /\ procs[i].pc = "open"
    /\ fs' = [fs EXCEPT ![procs[i].target] = Corrupt]
    /\ procs' = [procs EXCEPT ![i].pc = "dump"]
    /\ UNCHANGED <<now, last, scope>>

\* the number of characters of the strings of the model
Chars(s) == IF s \in {"eggs", "Eggs"} THEN 4 ELSE IF s \in {"pasta", "PASTA"} THEN 5 ELSE 12

\* the number of bytes json.dump(data, file, indent=2) writes for a list of
\* records: brackets, and per record its braces, its keys and its strings
RECURSIVE RecordsSize(_)
RecordsSize(data) ==
    IF data = <<>> THEN 0
    ELSE LET record == Head(data)
             KeySize(k) == 12 + Len(k)   \* indent, quotes, colon, blank, comma, newline
             size == IF "timestamp" \in DOMAIN record
                     THEN KeySize("timestamp") + Chars(record["timestamp"])
                          + KeySize("content") + Chars(record["content"])
                     ELSE KeySize("content") + Chars(record["content"])
         IN  8 + size + RecordsSize(Tail(data))   \* no comma after the last key

DumpSize(data) == 2 + RecordsSize(data)

\* save_file: json.dump of the process's list and the close of the file.
\* The bytes go to the start of the file, which was emptied when this
\* process opened it: if the other process has written a longer text
\* since, its tail stays behind the text written now
RaceDump(i) ==
    LET data_file == procs[i].target
        data == IF data_file = RaceMealFile THEN procs[i].meals ELSE procs[i].suggestions
        found == fs[data_file]
    IN  /\ procs[i].pc = "dump"
        /\ fs' = [fs EXCEPT ![data_file] =
                     IF found.kind = "json" /\ DumpSize(found.data) > DumpSize(data)
                     THEN Corrupt
                     ELSE Dump(data)]
        /\ procs' = [procs EXCEPT ![i].pc =
                        IF data_file = RaceMealFile THEN "load_suggestions" ELSE "done"]
        /\ UNCHANGED <<now, last, scope>>

\* add_meal from the load of the suggestions to the second call of save_file
RaceLoadSuggestions(i) ==
    LET loaded == load_file(fs[RaceSuggestionFile])
        suggestions == IF loaded.none THEN <<>> ELSE loaded.data
        found == AnyContentMatch(suggestions, procs[i].meal)
    IN  /\ procs[i].pc = "load_suggestions"
        /\ procs' = [procs EXCEPT ![i] =
                        CASE found = "KeyError" -> [@ EXCEPT !.pc = "crashed"]
                          [] found = "True"     -> [@ EXCEPT !.pc = "done"]
                          [] OTHER ->
                               [@ EXCEPT !.pc = "copy", !.target = RaceSuggestionFile,
                                         !.suggestions =
                                             Append(suggestions, [content |-> procs[i].meal])]]
        /\ UNCHANGED <<fs, now, last, scope>>

RaceInit ==
    /\ scope = "race"
    /\ fs \in RaceDisks
    /\ now = Today
    /\ last = Done("none", FALSE, None, None, 0, <<>>, "none", 0)
    /\ \E pair \in RaceMeals : procs = [i \in {1, 2} |-> Start(pair[i])]

RaceNext ==
    \E i \in {1, 2} :
        \/ RaceLoadMeals(i)
        \/ RaceCopyBackup(i)
        \/ RaceOpenForWrite(i)
        \/ RaceDump(i)
        \/ RaceLoadSuggestions(i)

RaceSpec == RaceInit /\ [][RaceNext]_vars

----------------------------------------------------------------------------
(* Vocabulary of the properties.  A step of command c is a step whose     *)
(* next state has last.cmd = c: every action writes its own name there.   *)

\* the four files of the root a command works on
Ledger(l) == DataFile(l.test)
Suggestions(l) == SuggestionFile(l.test)
LedgerBackup(l) == BackupPath(DataFile(l.test))
SuggestionsBackup(l) == BackupPath(SuggestionFile(l.test))

\* the command printed a line with this text
Printed(l, text) == \E i \in 1..Len(l.out) : l.out[i].text = text

\* the command reached its operation (main did not stop on the date or on
\* an empty meal text)
Dispatched(l) == l.exc # "SystemExit" /\ ~Printed(l, "No meal content provided.")

\* the files a command loads with load_file
Loads(l) ==
    CASE l.cmd = "add" /\ Dispatched(l)        -> {Ledger(l), Suggestions(l)}
      [] l.cmd = "addsuggest" /\ Dispatched(l) -> {Suggestions(l)}
      [] l.cmd = "list"                        -> {Ledger(l)}
      [] l.cmd = "listsuggest"                 -> {Suggestions(l)}
      [] l.cmd = "delete"                      -> {Ledger(l)}
      [] l.cmd = "suggest"                     -> {Ledger(l), Suggestions(l)}
      [] OTHER                                 -> {}

\* no two records of a suggestion list are equal when case is ignored
FoldCase(s) == CASE s = "Eggs" -> "eggs" [] s = "PASTA" -> "pasta" [] OTHER -> s
CaseUnique(list) ==
    \A i, j \in 1..Len(list) :
        i # j => FoldCase(list[i]["content"]) # FoldCase(list[j]["content"])

----------------------------------------------------------------------------
(* C1 *)

\* C1: a command that loads a data file whose content is not valid JSON
\* leaves that file as it was and does not crash
C1_CorruptedFileUntouched ==
    [][ \A p \in Loads(last') :
          fs[p].kind = "corrupt" => fs'[p] = fs[p] /\ last'.exc = "none" ]_vars

----------------------------------------------------------------------------
(* C2 *)

\* C2: restore with the ledger backup or the suggestion backup missing
\* reports that there is nothing to restore from and changes neither live file
C2_RestoreAllOrNothing ==
    [][ ( /\ last'.cmd = "restore"
          /\ \/ ~Exists(fs[LedgerBackup(last')])
             \/ ~Exists(fs[SuggestionsBackup(last')]) )
        => /\ Printed(last', "No file to restore from")
           /\ fs'[Ledger(last')] = fs[Ledger(last')]
           /\ fs'[Suggestions(last')] = fs[Suggestions(last')] ]_vars

----------------------------------------------------------------------------
(* C3 *)

\* C3: no two records of a suggestion file are equal under case-insensitive
\* comparison, whatever commands were run
C3_SuggestionsCaseUnique ==
    \A p \in SuggestionPaths : CaseUnique(fs[p].data)

\* C3 witness: add of "Eggs" ran on suggestions that already held "eggs"
\* and another meal, and a restore has been possible since
C3_Witness ==
    /\ last.cmd = "add"
    /\ last.meal = "Eggs"
    /\ Printed(last, "Meal added")
    /\ Len(fs[Suggestions(last)].data) = 2
    /\ \E i \in 1..2 : fs[Suggestions(last)].data[i]["content"] = "eggs"
    /\ Exists(fs[SuggestionsBackup(last)])

----------------------------------------------------------------------------
(* C4 *)

\* the commands that save with save_file
Saving == {"add", "addsuggest", "delete", "deleteall"}

\* what the command's own report says it saved
SavedLedger(l) ==
    \/ l.cmd = "add" /\ Printed(l, "Meal added")
    \/ l.cmd = "delete" /\ Printed(l, "Deleted meal")
    \/ l.cmd = "deleteall"
SavedSuggestions(l) == l.cmd = "addsuggest" /\ Printed(l, "Added suggestion")

\* C4: a save onto an existing file leaves the file's previous content in
\* its backup, the backup holds nothing older, and a save onto a missing
\* file or a command that does not save leaves the backup alone
C4_BackupIsPriorVersion ==
    [][ last'.cmd \in Saving =>
          \A p \in {Ledger(last'), Suggestions(last')} :
              /\ (fs'[p] # fs[p] /\ Exists(fs[p])) => fs'[BackupPath(p)] = fs[p]
              /\ (fs'[p] # fs[p] /\ ~Exists(fs[p])) => fs'[BackupPath(p)] = fs[BackupPath(p)]
              /\ fs'[p] = fs[p] => fs'[BackupPath(p)] \in {fs[BackupPath(p)], fs[p]}
              /\ (p = Ledger(last') /\ SavedLedger(last') /\ Exists(fs[p]))
                    => fs'[BackupPath(p)] = fs[p]
              /\ (p = Suggestions(last') /\ SavedSuggestions(last') /\ Exists(fs[p]))
                    => fs'[BackupPath(p)] = fs[p] ]_vars

\* C4 witness: a delete has just rewritten a ledger that had a backup from
\* an earlier save, and the backup now holds the list with one record more
C4_Witness ==
    /\ last.cmd = "delete"
    /\ Printed(last, "Deleted meal")
    /\ fs[LedgerBackup(last)].kind = "json"
    /\ Len(fs[LedgerBackup(last)].data) = Len(fs[Ledger(last)].data) + 1
    /\ Len(fs[Ledger(last)].data) >= 1

----------------------------------------------------------------------------
(* C5 *)

\* the rows among the printed lines
Rows(out) == LET IsRow(line) == line.text = "row" IN SelectSeq(out, IsRow)

\* what list prints for a ledger file
Listing(files, l) == Rows(list_meals(files, Ledger(l)).out)

\* the step is a delete that removed a record
Deleted(l) == l.cmd = "delete" /\ Printed(l, "Deleted meal")

\* the rows of before without the i-th, renumbered from 1
WithoutRow(before, i) ==
    [k \in 1..(Len(before) - 1) |->
        LET from == IF k < i THEN before[k] ELSE before[k + 1]
        IN  [from EXCEPT !.i = k]]

\* C5 as stated: after delete(i), list never shows the removed content, and
\* shows the remaining rows in their order, numbered from 1
C5_RemovedContentNeverListed ==
    [][ Deleted(last') =>
          LET before == Listing(fs, last')
              after == Listing(fs', last')
              i == last'.index
          IN  /\ after = WithoutRow(before, i)
              /\ \A k \in 1..Len(after) : after[k].b # before[i].b ]_vars

\* C5 as amended: after delete(i), list shows the former rows without the
\* i-th, in their order and numbered from 1; the removed content is shown
\* only where another record carries it
C5_DeleteRemovesOneRow ==
    [][ Deleted(last') =>
          LET before == Listing(fs, last')
              after == Listing(fs', last')
              i == last'.index
          IN  /\ i \in 1..Len(before)
              /\ Len(after) = Len(before) - 1
              /\ \A k \in 1..Len(after) :
                    /\ after[k].i = k
                    /\ after[k].a = before[IF k < i THEN k ELSE k + 1].a
                    /\ after[k].b = before[IF k < i THEN k ELSE k + 1].b
              /\ (\E k \in 1..Len(after) : after[k].b = before[i].b)
                    => \E k \in 1..Len(before) : k # i /\ before[k].b = before[i].b ]_vars

\* C5 witness: the first of three records was deleted, two different ones remain
C5_Witness ==
    /\ Deleted(last)
    /\ last.index = 1
    /\ Len(fs[Ledger(last)].data) = 2
    /\ fs[Ledger(last)].data[1] # fs[Ledger(last)].data[2]

----------------------------------------------------------------------------
(* C6 *)

\* C6: delete with an index outside 1..length of a ledger that is a list
\* or is missing reports an invalid index, does not crash and changes no file
C6_InvalidIndexChangesNothing ==
    [][ ( /\ last'.cmd = "delete"
          /\ fs[Ledger(last')].kind # "corrupt"
          /\ last'.index \notin 1..Len(fs[Ledger(last')].data) )
        => /\ last'.out = <<Msg("Invalid meal number")>>
           /\ last'.exc = "none"
           /\ fs' = fs ]_vars

\* C6 witness: an index below 1 was refused on a ledger of two records that
\* has a backup
C6_Witness ==
    /\ last.cmd = "delete"
    /\ last.index < 1
    /\ Printed(last, "Invalid meal number")
    /\ Len(fs[Ledger(last)].data) = 2
    /\ Exists(fs[LedgerBackup(last)])

----------------------------------------------------------------------------
(* C7, C8 *)

\* the record has a timestamp of the "[%Y-%m-%d]" form
Stamped(m) == "timestamp" \in DOMAIN m /\ \E c \in Calendar : c.stamp = m["timestamp"]

\* the day of a stamped record
DayOf(m) == (CHOOSE c \in Calendar : c.stamp = m["timestamp"]).day

\* midnight of the record's day is earlier than `days` days before the clock
Older(m, clock, days) ==
    IF clock.tod = 0 THEN DayOf(m) < clock.day - days ELSE DayOf(m) <= clock.day - days

\* the step is an add that ran add_meal
Added(l) == l.cmd = "add" /\ Dispatched(l)

\* everything but the last record
Front(list) == SubSeq(list, 1, Len(list) - 1)

\* the records of the new ledger that the add did not append
Survivors(files, l) ==
    IF Printed(l, "Meal added") THEN Front(files[Ledger(l)].data) ELSE files[Ledger(l)].data

\* C7: after an add, no record that was in the ledger with a timestamp older
\* than the 30-day window is left, and every record within the window is
C7_OldRecordsPrunedOnAdd ==
    [][ Added(last') =>
          LET old == fs[Ledger(last')].data
              kept == Survivors(fs', last')
          IN  \A i \in 1..Len(old) :
                  Stamped(old[i]) =>
                      IF Older(old[i], now, 30)
                      THEN \A j \in 1..Len(kept) : kept[j] # old[i]
                      ELSE \E j \in 1..Len(kept) : kept[j] = old[i] ]_vars

\* C8 as stated: after any command that writes the ledger, the ledger holds
\* no record older than the 30-day window
C8_EveryWritePrunes ==
    [][ SavedLedger(last') =>
          LET new == fs'[Ledger(last')].data
          IN  \A i \in 1..Len(new) : Stamped(new[i]) => ~Older(new[i], now, 30) ]_vars

\* C8 as amended: add writes the records of the old ledger that are within
\* the window, in order, followed by the new record; delete writes the old
\* list without the record removed, pruning nothing; deleteall writes []
C8_OnlyAddPrunes ==
    [][ SavedLedger(last') =>
          LET old == fs[Ledger(last')].data
              new == fs'[Ledger(last')].data
              InWindow(m) == Stamped(m) /\ ~Older(m, now, 30)
              i == last'.index
          IN  CASE last'.cmd = "add" ->
                     /\ Len(new) >= 1
                     /\ Front(new) = SelectSeq(old, InWindow)
                [] last'.cmd = "delete" ->
                     /\ Len(new) = Len(old) - 1
                     /\ \A k \in 1..Len(new) : new[k] = old[IF k < i THEN k ELSE k + 1]
                [] OTHER -> new = <<>> ]_vars

\* C8 witness: a delete has just written a ledger that still holds a record
\* older than the window, which an earlier add had dated 30 days back
C8_Witness ==
    /\ scope = "retention"
    /\ Deleted(last)
    /\ \E i \in 1..Len(fs[Ledger(last)].data) :
          /\ Stamped(fs[Ledger(last)].data[i])
          /\ Older(fs[Ledger(last)].data[i], now, 30)

----------------------------------------------------------------------------
(* C9 *)

\* the lowercased contents of the ledger records dated within the last 14 days
RecentContents(files, clock, l) ==
    LET led == files[Ledger(l)].data
    IN  { FoldCase(led[i]["content"]) :
            i \in { j \in 1..Len(led) :
                      /\ Stamped(led[j])
                      /\ "content" \in DOMAIN led[j]
                      /\ ~Older(led[j], clock, 14) } }

\* C9: suggest returns only a suggestion that no recent ledger record
\* matches, and reports that nothing is eligible exactly when there are
\* suggestions and every one of them is matched
C9_SuggestOnlyEligible ==
    [][ last'.cmd = "suggest" =>
          LET sugg == fs[Suggestions(last')].data
              recent == RecentContents(fs, now, last')
          IN  /\ \A k \in 1..Len(last'.out) :
                    last'.out[k].text = "Suggested meal:" =>
                        /\ \E i \in 1..Len(sugg) : sugg[i]["content"] = last'.out[k].a
                        /\ FoldCase(last'.out[k].a) \notin recent
              /\ Printed(last', "No meal found that hasn't been eaten in the last 2 weeks.")
                    <=> /\ sugg # <<>>
                        /\ \A i \in 1..Len(sugg) : FoldCase(sugg[i]["content"]) \in recent ]_vars

----------------------------------------------------------------------------
(* C10 *)

\* how many records of a suggestion list equal x when case is ignored
Matches(list, x) ==
    Cardinality({ i \in 1..Len(list) : FoldCase(list[i]["content"]) = FoldCase(x) })

\* C10: addsuggest(x) on suggestions that hold x in some casing writes
\* nothing and says so; after any addsuggest(x) exactly one suggestion
\* equals x when case is ignored
C10_AddSuggestIdempotent ==
    [][ (last'.cmd = "addsuggest" /\ Dispatched(last')) =>
          LET x == last'.meal
          IN  /\ Matches(fs[Suggestions(last')].data, x) > 0
                    => /\ fs' = fs
                       /\ last'.out = <<Msg1("Suggestion already exists", x)>>
              /\ Matches(fs'[Suggestions(last')].data, x) = 1 ]_vars

\* C10 witness: addsuggest("Eggs") was refused because "eggs" is there
C10_Witness ==
    /\ last.cmd = "addsuggest"
    /\ last.meal = "Eggs"
    /\ Printed(last, "Suggestion already exists")
    /\ \E i \in 1..Len(fs[Suggestions(last)].data) :
          fs[Suggestions(last)].data[i]["content"] = "eggs"
    /\ Matches(fs[Suggestions(last)].data, "Eggs") = 1

----------------------------------------------------------------------------
(* C11 *)

\* the rows of a are rows of b, in the order they have in b
InOrder(a, b) ==
    \E f \in [1..Len(a) -> 1..Len(b)] :
        /\ \A i, j \in 1..Len(a) : i < j => f[i] < f[j]
        /\ \A i \in 1..Len(a) : a[i].a = b[f[i]].a /\ a[i].b = b[f[i]].b

\* C11: list numbers its rows 1..n by position in the ledger, and an add
\* keeps the rows that survive in the order they had and puts the new meal
\* in the last row, so that after any sequence of adds the rows are in the
\* order of the adds
C11_ListInInsertionOrder ==
    [][ Added(last') =>
          LET before == Listing(fs, last')
              after == Listing(fs', last')
              n == Len(fs'[Ledger(last')].data)
          IN  /\ Len(after) = n
              /\ \A k \in 1..n : after[k].i = k
              /\ IF Printed(last', "Meal added")
                 THEN /\ n >= 1
                      /\ after[n].b = last'.meal
                      /\ InOrder(Front(after), before)
                 ELSE after = before ]_vars

\* C11 witness: three adds in a row, and list shows them first to last
C11_Witness ==
    /\ last.cmd = "add"
    /\ Printed(last, "Meal added")
    /\ LET rows == Listing(fs, last)
       IN  /\ Len(rows) = 3
           /\ rows[1].b = "eggs" /\ rows[2].b = "Eggs" /\ rows[3].b = "pasta"
           /\ rows[1].i = 1 /\ rows[2].i = 2 /\ rows[3].i = 3

----------------------------------------------------------------------------
(* C12 *)

\* the timestamp an add is to write: the date given, or the clock's day
ExpectedStamp(l, clock) ==
    IF l.date = None
    THEN (CHOOSE c \in Calendar : c.day = clock.day).stamp
    ELSE (CHOOSE c \in Calendar : c.iso = l.date).stamp

\* the file holds JSON or is missing
Valid(f) == f.kind # "corrupt"

\* C12: add on valid files appends exactly one record {timestamp, content}
\* after the records of the ledger that are within the window, stamped with
\* the date given or else today; it appends {content} to the suggestions
\* when no suggestion matches the content case-insensitively, and otherwise
\* does not write the suggestion file
C12_AddAppendsAndMirrors ==
    [][ ( /\ Added(last')
          /\ Valid(fs[Ledger(last')])
          /\ Valid(fs[Suggestions(last')]) )
        => LET old == fs[Ledger(last')].data
               new == fs'[Ledger(last')].data
               sugg == fs[Suggestions(last')].data
               x == last'.meal
               InWindow(m) == Stamped(m) => ~Older(m, now, 30)
           IN  /\ new = Append(SelectSeq(old, InWindow),
                               [timestamp |-> ExpectedStamp(last', now), content |-> x])
               /\ IF Matches(sugg, x) = 0
                  THEN fs'[Suggestions(last')].data = Append(sugg, [content |-> x])
                  ELSE /\ fs'[Suggestions(last')] = fs[Suggestions(last')]
                       /\ fs'[SuggestionsBackup(last')] = fs[SuggestionsBackup(last')] ]_vars

----------------------------------------------------------------------------
(* C13 *)

\* C13: restore with both backups holding JSON reports success, leaves in
\* each live file the records of its backup, leaves both backups as they
\* were, and a second restore right after it changes no file
C13_RestoreCopiesBackups ==
    [][ ( /\ last'.cmd = "restore"
          /\ fs[LedgerBackup(last')].kind = "json"
          /\ fs[SuggestionsBackup(last')].kind = "json" )
        => /\ Printed(last', "Successfully restored.")
           /\ fs'[Ledger(last')].kind = "json"
           /\ fs'[Ledger(last')].data = fs[LedgerBackup(last')].data
           /\ fs'[Suggestions(last')].kind = "json"
           /\ fs'[Suggestions(last')].data = fs[SuggestionsBackup(last')].data
           /\ fs'[LedgerBackup(last')] = fs[LedgerBackup(last')]
           /\ fs'[SuggestionsBackup(last')] = fs[SuggestionsBackup(last')]
           /\ restore(fs', Ledger(last'), Suggestions(last')).files = fs' ]_vars

\* C13 witness: a restore has brought back a ledger of two records and the
\* suggestions that go with an earlier state
C13_Witness ==
    /\ last.cmd = "restore"
    /\ Printed(last, "Successfully restored.")
    /\ Len(fs[Ledger(last)].data) = 2
    /\ fs[Ledger(last)].data = fs[LedgerBackup(last)].data
    /\ Len(fs[Suggestions(last)].data) >= 1
    /\ fs[Suggestions(last)].data = fs[SuggestionsBackup(last)].data

----------------------------------------------------------------------------
(* C14 *)

\* what a reader is to take from a record: the new key when present, the
\* legacy key otherwise, the sentinel when neither is
Shown(m, new, legacy, sentinel) ==
    IF new \in DOMAIN m THEN m[new]
    ELSE IF legacy \in DOMAIN m THEN m[legacy]
    ELSE sentinel

\* the step is one of the operations that read the records of the ledger
ReadsRecords(l) == l.cmd \in {"list", "delete", "suggest"} \/ Added(l)

\* C14: list, delete, add and suggest complete on a ledger of records of
\* either shape, and list shows of each record the new keys when present,
\* the legacy keys otherwise, "unknown date" / "unknown meal" when neither is
C14_ReadersAcceptBothShapes ==
    [][ ( /\ ReadsRecords(last')
          /\ fs[Ledger(last')].kind = "json"
          /\ Valid(fs[Suggestions(last')]) )
        => LET led == fs[Ledger(last')].data
           IN  /\ last'.exc = "none"
               /\ last'.cmd = "list" =>
                     \A k \in 1..Len(led) :
                         /\ Rows(last'.out)[k].a = Shown(led[k], "timestamp", "date", "unknown date")
                         /\ Rows(last'.out)[k].b = Shown(led[k], "content", "meal", "unknown meal") ]_vars

----------------------------------------------------------------------------
(* C15 *)

\* the root directory a path is under, and the files of a root
Root(p) == p.dir[2]
LedgerIn(root) == [dir |-> <<".", root>>, name |-> <<"meals.json">>]
SuggestionsIn(root) == [dir |-> <<".", root>>, name |-> <<"suggestion.json">>]

\* C15 as stated: a command without --test changes no file outside the
\* test root
C15_DefaultsToTest ==
    [][ (last'.cmd # "tick" /\ ~last'.test) =>
          \A p \in Paths : fs'[p] # fs[p] => Root(p) = "test" ]_vars

\* C15 as amended: a command without --test changes no file outside the
\* live root, a command with --test none outside the test root; list shows
\* the ledger of that root and add puts the meal in the ledger and the
\* suggestions of that root
C15_DefaultsToLive ==
    [][ last'.cmd # "tick" =>
          LET root == IF last'.test THEN "test" ELSE "live"
              led == fs'[LedgerIn(root)].data
          IN  /\ \A p \in Paths : fs'[p] # fs[p] => Root(p) = root
              /\ last'.cmd = "list" => Len(Rows(last'.out)) = Len(fs[LedgerIn(root)].data)
              /\ Printed(last', "Meal added") =>
                    /\ Len(led) >= 1
                    /\ led[Len(led)]["content"] = last'.meal
                    /\ Matches(fs'[SuggestionsIn(root)].data, last'.meal) = 1 ]_vars

\* C15 witness: an add without --test has written the first record of the
\* live ledger while the test ledger holds two
C15_Witness ==
    /\ last.cmd = "add"
    /\ ~last.test
    /\ Printed(last, "Meal added")
    /\ Len(fs[LedgerIn("live")].data) = 1
    /\ Len(fs[LedgerIn("test")].data) = 2

----------------------------------------------------------------------------
(* C16 *)

\* C16: an add whose meal text is empty writes no file, and every record
\* of the ledger an add leaves has a content that is not empty, the one it
\* appended carrying the meal text
C16_AddNeverWritesEmptyContent ==
    [][ last'.cmd = "add" =>
          LET led == fs'[Ledger(last')].data
          IN  /\ last'.meal \in {"", None} => fs' = fs
              /\ \A i \in 1..Len(led) : "content" \in DOMAIN led[i] => led[i]["content"] # ""
              /\ Printed(last', "Meal added") =>
                    /\ led[Len(led)]["content"] = last'.meal
                    /\ last'.meal # "" ]_vars

\* C16 witness: an add with an empty meal text was refused on a ledger
\* that holds a record
C16_Witness ==
    /\ last.cmd = "add"
    /\ last.meal = ""
    /\ last.date = None
    /\ Printed(last, "No meal content provided.")
    /\ Len(fs[Ledger(last)].data) >= 1

----------------------------------------------------------------------------
(* C17 *)

\* both concurrent adds have returned
BothDone == \A i \in {1, 2} : procs[i].pc = "done"

\* the record a concurrent add appends for its meal
RaceEntry(i) == [timestamp |-> "[2026-11-03]", content |-> procs[i].meal]

\* the list holds the record
Holds(list, record) == \E k \in 1..Len(list) : list[k] = record

\* C17: without a lock the last writer wins: when two concurrent adds have
\* both returned, the ledger is the list one of them wrote, which ends
\* with its own record, whether or not the other's record is in it; or it
\* is the text of one written over the longer text of the other
C17_LastWriterWins ==
    BothDone =>
        \/ fs[RaceMealFile] = Corrupt
        \/ \E i \in {1, 2} :
              /\ fs[RaceMealFile].data = procs[i].meals
              /\ Len(procs[i].meals) >= 1
              /\ procs[i].meals[Len(procs[i].meals)] = RaceEntry(i)

\* C17 witness: both adds have returned on a ledger that held one record;
\* the ledger holds that record and the second process's record, the
\* first's is lost, and the backup holds the ledger as the first process
\* wrote it, not as it was before the two
C17_Witness ==
    /\ BothDone
    /\ Len(fs[RaceMealFile].data) = 2
    /\ Holds(fs[RaceMealFile].data, RaceEntry(2))
    /\ ~Holds(fs[RaceMealFile].data, RaceEntry(1))
    /\ Holds(fs[BackupPath(RaceMealFile)].data, RaceEntry(1))

----------------------------------------------------------------------------
(* C18 *)

\* every record of the ledger of a root has a suggestion of that root with
\* the same content when case is ignored
Mirrored(files, root) ==
    LET led == files[LedgerIn(root)].data
    IN  \A k \in 1..Len(led) :
            Matches(files[SuggestionsIn(root)].data,
                    Shown(led[k], "content", "meal", "unknown meal")) >= 1

\* the session starts from empty files
FromEmptyFiles == SessionOf(scope).disks = {EmptyDisk}

\* C18 as stated: from empty files, whatever commands are run, restore
\* among them, the ledger stays mirrored in the suggestions
C18_LedgerMirrored ==
    FromEmptyFiles => \A root \in {"live", "test"} : Mirrored(fs, root)

\* C18 as amended: add, addsuggest, delete and deleteall keep the ledger
\* mirrored in the suggestions
C18_MirroredUnlessRestored ==
    [][ last'.cmd \in {"add", "addsuggest", "delete", "deleteall"} =>
          \A root \in {"live", "test"} : Mirrored(fs, root) => Mirrored(fs', root) ]_vars

\* C18 witness: an add has put a second meal in the ledger and in the
\* suggestions
C18_Witness ==
    /\ last.cmd = "add"
    /\ Printed(last, "Meal added")
    /\ FromEmptyFiles
    /\ Len(fs[Ledger(last)].data) = 2
    /\ Len(fs[Suggestions(last)].data) = 2
    /\ fs[Suggestions(last)].data[2]["content"] = last.meal
    /\ Mirrored(fs, "live") /\ Mirrored(fs, "test")

----------------------------------------------------------------------------
(* C19 *)

\* the ledger files and the suggestion files, backups included, by name
IsLedgerFile(p) == p.name[Len(p.name)] = "meals.json"
IsSuggestionFile(p) == p.name[Len(p.name)] = "suggestion.json"

\* C19: list, listsuggest and suggest change no file; delete and deleteall
\* change no suggestion file and no backup of one; addsuggest changes no
\* ledger file and no backup of one
C19_FrameConditions ==
    [][ /\ last'.cmd \in {"list", "listsuggest", "suggest"} => fs' = fs
        /\ last'.cmd \in {"delete", "deleteall"} =>
              \A p \in Paths : IsSuggestionFile(p) => fs'[p] = fs[p]
        /\ last'.cmd = "addsuggest" =>
              \A p \in Paths : IsLedgerFile(p) => fs'[p] = fs[p] ]_vars

\* C19 witness: a list has run on a ledger of two records that has a
\* backup, with suggestions that have one
C19_Witness ==
    /\ last.cmd = "list"
    /\ Len(Rows(last.out)) = 2
    /\ Len(fs[LedgerBackup(last)].data) = 1
    /\ Len(fs[Suggestions(last)].data) = 2
    /\ Exists(fs[SuggestionsBackup(last)])

====
